---- MODULE Spec2Model ----
(***************************************************************************)
(* stronglyRegularGraphs.py: main() reads (n, k, lambda, mu) from the      *)
(* command line and find_srg() builds a 0/1 linear model whose solutions   *)
(* are the strongly regular graphs with these parameters, hands it to the  *)
(* solver, and re-checks and prints the solver's answer.                   *)
(*                                                                         *)
(* The solver is an external library.  m.optimize() is modelled by its     *)
(* contract: it ends OPTIMAL with some assignment satisfying every         *)
(* constraint (any of them), or with a status proving there is none, or,   *)
(* when it is stopped early, with a status that proves nothing.  The       *)
(* model has no objective, so every feasible assignment is optimal.        *)
(* Solution values are modelled as exact 0/1 integers (the test X > 0.5    *)
(* of the code becomes 2 * X > 1).                                         *)
(*                                                                         *)
(* y is declared over all n^3 triples (line 26) but only the variables of  *)
(* pairwise distinct triples occur in a constraint, and no y is ever read  *)
(* back; the model keeps y over the pairwise distinct triples.             *)
(***************************************************************************)
EXTENDS Integers, Sequences, FiniteSets, TLC

VARIABLES pc, args, n, k, lmd, mu, optimized, status, x, y, E, correct, out

vars == <<pc, args, n, k, lmd, mu, optimized, status, x, y, E, correct, out>>

-----------------------------------------------------------------------------
(* Bounds of the model *)

\* the command lines of four integers range over n in -1..MaxN,
\* k in -1..MaxN, lambda and mu in -1..MaxN+1
MaxN == 4
\* the solver's search space is enumerated in full for n <= EnumN
EnumN == 6
\* beyond EnumN (n = 10) the search space is the Petersen graph and the
\* pentagonal prism relabelled by products of two transpositions of the
\* vertices below SwapRange, and each of these with one pair toggled
SwapRange == 5

-----------------------------------------------------------------------------
(* Python helpers *)

\* range(nn)
Range(nn) == [i \in 1..(IF nn > 0 THEN nn ELSE 0) |-> i - 1]

\* the set of values of range(nn)
RangeSet(nn) == 0..(nn - 1)

\* tuple(sorted([a, b]))
Sorted(a, b) == IF a <= b THEN <<a, b>> ELSE <<b, a>>

\* gp.quicksum(terms)
RECURSIVE quicksum(_)
quicksum(terms) ==
    IF terms = <<>> THEN 0 ELSE Head(terms) + quicksum(Tail(terms))

\* itertools.combinations(range(nn), 2), in the order it yields
Combinations(nn) ==
    LET all == [i \in 1..(Len(Range(nn)) * Len(Range(nn))) |->
                  <<(i - 1) \div nn, (i - 1) % nn>>]
    IN  SelectSeq(all, LAMBDA e : e[1] < e[2])

\* the keys of x
Pairs(nn) == {e \in RangeSet(nn) \X RangeSet(nn) : e[1] < e[2]}

\* the keys (w, u, v) of y that occur in a constraint
Triples(nn) ==
    {t \in RangeSet(nn) \X RangeSet(nn) \X RangeSet(nn) :
        t[1] # t[2] /\ t[1] # t[3] /\ t[2] # t[3]}

\* [w for w in range(nn) if w != u and w != v]
Thirds(nn, u, v) == SelectSeq(Range(nn), LAMBDA w : w # u /\ w # v)

-----------------------------------------------------------------------------
(* The constraint model, lines 15-65 *)

\* BigM with a plausible fault: a constant too small to switch a constraint off
BigMUnit(nn) == 1

\* BigM = n
BigM(nn) == nn

\* DegreeConstr with a plausible fault: the degree is bounded, not fixed
DegreeConstrAtMost(nn, kk, xx, v) ==
    LET others == SelectSeq(Range(nn), LAMBDA u : u # v)
    IN  quicksum([i \in 1..Len(others) |-> xx[Sorted(v, others[i])]]) <= kk

\* lines 31-34, for one v: sum of x over the pairs at v == k
DegreeConstr(nn, kk, xx, v) ==
    LET others == SelectSeq(Range(nn), LAMBDA u : u # v)
    IN  quicksum([i \in 1..Len(others) |-> xx[Sorted(v, others[i])]]) = kk

\* LinkLower with a plausible fault: the constant term is off by one
LinkLowerLoose(xx, t, b) ==
    -2 + xx[Sorted(t[1], t[2])] + xx[Sorted(t[1], t[3])] <= 2 * b

\* lines 38-41, for one (w, u, v): -1 + x_wu + x_wv <= 2 * y_wuv
LinkLower(xx, t, b) ==
    -1 + xx[Sorted(t[1], t[2])] + xx[Sorted(t[1], t[3])] <= 2 * b

\* lines 42-45, for one (w, u, v): 2 * y_wuv <= x_wu + x_wv
LinkUpper(xx, t, b) ==
    2 * b <= xx[Sorted(t[1], t[2])] + xx[Sorted(t[1], t[3])]

\* the binary values of y[t] that lines 38-45 allow under xx
YValues(xx, t) == {b \in {0, 1} : LinkLower(xx, t, b) /\ LinkUpper(xx, t, b)}

\* the assignments of y that lines 38-45 allow under xx.  Each y[t] stands
\* in its own two constraints only, so these are the product of YValues.
YAssignments(nn, xx) ==
    LET T     == Triples(nn)
        none  == {t \in T : YValues(xx, t) = {}}
        free  == {t \in T : YValues(xx, t) = {0, 1}}
        ones  == {t \in T : YValues(xx, t) = {1}}
    IN  IF none # {} THEN {}
        ELSE {[t \in T |-> IF t \in ones \cup S THEN 1 ELSE 0] : S \in SUBSET free}

\* gp.quicksum(y[w, u, v] for w in range(n) if w != u and w != v)
YSum(nn, yy, u, v) ==
    LET ws == Thirds(nn, u, v)
    IN  quicksum([i \in 1..Len(ws) |-> yy[<<ws[i], u, v>>]])

\* LambdaUpper with a plausible fault: the slack is not switched off by x[u, v]
LambdaUpperSlack(nn, ll, xx, yy, e) ==
    YSum(nn, yy, e[1], e[2]) <= ll + BigM(nn)

\* lines 48-51, for one pair
LambdaUpper(nn, ll, xx, yy, e) ==
    YSum(nn, yy, e[1], e[2]) <= ll + ((1 - xx[e]) * BigM(nn))

\* lines 52-55, for one pair
LambdaLower(nn, ll, xx, yy, e) ==
    YSum(nn, yy, e[1], e[2]) >= ll - ((1 - xx[e]) * BigM(nn))

\* lines 58-61, for one pair
MuUpper(nn, mm, xx, yy, e) ==
    YSum(nn, yy, e[1], e[2]) <= mm + (xx[e] * BigM(nn))

\* MuLower with a plausible fault: the bound is not switched off for adjacent pairs
MuLowerNoSlack(nn, mm, xx, yy, e) ==
    YSum(nn, yy, e[1], e[2]) >= mm

\* lines 62-65, for one pair
MuLower(nn, mm, xx, yy, e) ==
    YSum(nn, yy, e[1], e[2]) >= mm - (xx[e] * BigM(nn))

\* lines 47-65: the four conditional codegree constraints of every pair
CodegreeConstrs(nn, ll, mm, xx, yy) ==
    \A e \in Pairs(nn) :
        /\ LambdaUpper(nn, ll, xx, yy, e)
        /\ LambdaLower(nn, ll, xx, yy, e)
        /\ MuUpper(nn, mm, xx, yy, e)
        /\ MuLower(nn, mm, xx, yy, e)

\* lines 30-34: the degree constraint of every vertex
DegreeConstrs(nn, kk, xx) == \A v \in RangeSet(nn) : DegreeConstr(nn, kk, xx, v)

\* all constraints of the model, lines 31-65
Feasible(nn, kk, ll, mm, xx, yy) ==
    /\ DegreeConstrs(nn, kk, xx)
    /\ yy \in YAssignments(nn, xx)
    /\ CodegreeConstrs(nn, ll, mm, xx, yy)

-----------------------------------------------------------------------------
(* m.optimize(), line 69 *)

\* x as the solver's 0/1 values, from the set of pairs valued 1
XOf(nn, S) == [e \in Pairs(nn) |-> IF e \in S THEN 1 ELSE 0]

\* the Petersen graph: outer 5-cycle, spokes, inner pentagram
PetersenEdges ==
    {<<0, 1>>, <<1, 2>>, <<2, 3>>, <<3, 4>>, <<0, 4>>,
     <<0, 5>>, <<1, 6>>, <<2, 7>>, <<3, 8>>, <<4, 9>>,
     <<5, 7>>, <<7, 9>>, <<6, 9>>, <<6, 8>>, <<5, 8>>}

\* the pentagonal prism: 3-regular on 10 vertices, not strongly regular
PrismEdges ==
    {<<0, 1>>, <<1, 2>>, <<2, 3>>, <<3, 4>>, <<0, 4>>,
     <<0, 5>>, <<1, 6>>, <<2, 7>>, <<3, 8>>, <<4, 9>>,
     <<5, 6>>, <<6, 7>>, <<7, 8>>, <<8, 9>>, <<5, 9>>}

\* the transposition (a b) of the vertices, the identity when a = b
Swap(nn, a, b) ==
    [v \in RangeSet(nn) |-> IF v = a THEN b ELSE IF v = b THEN a ELSE v]

\* the edge set S with its vertices renamed by p
Relabel(p, S) == {Sorted(p[e[1]], p[e[2]]) : e \in S}

\* the bounded part of the search space for n = 10 (see SwapRange)
Family(nn) ==
    LET sw    == {Swap(nn, a, b) : a, b \in RangeSet(SwapRange)}
        perms == {[v \in RangeSet(nn) |-> p[q[v]]] : p, q \in sw}
        based == {Relabel(p, G) : p \in perms, G \in {PetersenEdges, PrismEdges}}
        near  == {(S \ {e}) \cup ({e} \ S) : S \in based, e \in Pairs(nn)}
    IN  {XOf(nn, S) : S \in based \cup near}

\* the assignments of x the search ranges over: every one for n <= EnumN
XSpace(nn) == IF nn <= EnumN THEN [Pairs(nn) -> {0, 1}] ELSE Family(nn)

\* the assignments <<x, y>> that satisfy every constraint of lines 31-65
Solutions(nn, kk, ll, mm) ==
    UNION {{<<xx, yy>> : yy \in {yy \in YAssignments(nn, xx) :
                                    CodegreeConstrs(nn, ll, mm, xx, yy)}} :
           xx \in {xx \in XSpace(nn) : DegreeConstrs(nn, kk, xx)}}

\* GRB.OPTIMAL, the value of line 73
OPTIMAL == 2

\* the statuses that prove there is no solution: INFEASIBLE, INF_OR_UNBD
ProvenInfeasible == {3, 4}

\* the statuses of a search stopped early: ITERATION_LIMIT, NODE_LIMIT,
\* TIME_LIMIT, INTERRUPTED
Unfinished == {7, 8, 9, 11}

-----------------------------------------------------------------------------
(* The verification of the solver's answer, lines 77-96 *)

\* line 78: E = [e for e in combinations(range(n), 2) if x[e].X > 0.5]
EdgeList(nn, xx) == SelectSeq(Combinations(nn), LAMBDA e : 2 * xx[e] > 1)

\* G.degree(v) of the graph of lines 82-83, whose edges are those of EE
GDegree(EE, v) ==
    Cardinality({i \in 1..Len(EE) : EE[i][1] = v \/ EE[i][2] = v})

\* lines 86-87: the degree check, folded into correct by &=
CheckDegree(nn, kk, EE) == \A v \in RangeSet(nn) : GDegree(EE, v) = kk

\* line 96, the list whose length is compared
CommonList(nn, xx, u, v) ==
    SelectSeq(Range(nn), LAMBDA w :
        /\ w # u
        /\ w # v
        /\ 2 * xx[Sorted(w, u)] > 1
        /\ 2 * xx[Sorted(w, v)] > 1)

\* lines 90-96: the lambda and mu check of every pair
CheckAdjacency(nn, ll, mm, xx) ==
    \A e \in Pairs(nn) :
        LET cmp == IF 2 * xx[e] > 1 THEN ll ELSE mm
        IN  cmp = Len(CommonList(nn, xx, e[1], e[2]))

\* lines 80-96: the value of correct
Verify(nn, kk, ll, mm, xx, EE) ==
    CheckDegree(nn, kk, EE) /\ CheckAdjacency(nn, ll, mm, xx)

-----------------------------------------------------------------------------
(* The command line, lines 112-127.  An argument is a sequence of          *)
(* characters.                                                             *)

DigitChars == <<"0", "1", "2", "3", "4", "5", "6", "7", "8", "9">>

IsDigit(c) == \E d \in 1..10 : DigitChars[d] = c

DigitValue(c) == (CHOOSE d \in 1..10 : DigitChars[d] = c) - 1

\* whether int(tok) returns: an optional sign, then one digit or more.
\* (int() also takes blanks around the number and single underscores
\* between digits; the arguments of the model hold neither.)
IsIntLiteral(tok) ==
    LET signed == Len(tok) >= 1 /\ tok[1] \in {"-", "+"}
        digits == IF signed THEN Tail(tok) ELSE tok
    IN  Len(digits) >= 1 /\ \A i \in 1..Len(digits) : IsDigit(digits[i])

RECURSIVE DigitsValue(_)
DigitsValue(ds) ==
    IF ds = <<>> THEN 0
    ELSE 10 * DigitsValue(SubSeq(ds, 1, Len(ds) - 1)) + DigitValue(ds[Len(ds)])

\* int(tok), for tok with IsIntLiteral(tok)
ParseInt(tok) ==
    IF tok[1] = "-" THEN 0 - DigitsValue(Tail(tok))
    ELSE IF tok[1] = "+" THEN DigitsValue(Tail(tok))
    ELSE DigitsValue(tok)

\* the decimal digits of i >= 0, as typed on a command line
RECURSIVE NatToken(_)
NatToken(i) ==
    IF i < 10 THEN <<DigitChars[i + 1]>>
    ELSE NatToken(i \div 10) \o <<DigitChars[(i % 10) + 1]>>

\* the integer i as typed on a command line
IntToken(i) == IF i < 0 THEN <<"-">> \o NatToken(0 - i) ELSE NatToken(i)

\* parameter tuples beyond the grid: the two instances the specification
\* names with n = 5 and n = 6, and the parameters of K3,3
NamedInstances == {<<5, 3, 2, 3>>, <<6, 3, 0, 2>>, <<6, 3, 0, 3>>}

\* the parameter tuples typed as four integers
ParamGrid ==
    ((-1..MaxN) \X (-1..MaxN) \X (-1..(MaxN + 1)) \X (-1..(MaxN + 1)))
        \cup NamedInstances

\* the command lines of the model: sys.argv[1:]
ArgLines ==
    {<<>>}
    \cup {[i \in 1..c |-> IntToken(1)] : c \in {1, 2, 3, 5}}
    \cup {[i \in 1..4 |-> IntToken(p[i])] : p \in ParamGrid}
    \cup {[i \in 1..4 |-> IF i = j THEN bad ELSE IntToken(2)] :
             j \in 1..4, bad \in {<<"a">>, <<>>, <<"-">>, <<"1", "a">>}}
    \cup {<<<<"+", "2">>, <<"0", "1">>, <<"-", "0">>, <<"0">>>>}

-----------------------------------------------------------------------------
(* The program *)

\* main() after lines 107-110, before the command line is read.  status 1
\* is LOADED, the status of a model that was not optimized; x and y have
\* no values, E is not assigned and nothing is printed yet.
Init ==
    /\ pc = "main"
    /\ args \in ArgLines
    /\ n = 10
    /\ k = 3
    /\ lmd = 0
    /\ mu = 1
    /\ optimized = 0
    /\ status = 1
    /\ x = <<>>
    /\ y = <<>>
    /\ E = <<>>
    /\ correct = TRUE
    /\ out = "none"

\* lines 112-129 of main(), up to the call of find_srg
Main ==
    /\ pc = "main"
    /\ IF Len(args) + 1 < 2
       THEN /\ pc' = "find_srg"
            /\ UNCHANGED <<n, k, lmd, mu, out>>
       ELSE IF Len(args) + 1 # 5
       THEN /\ pc' = "done"
            /\ out' = "usage"
            /\ UNCHANGED <<n, k, lmd, mu>>
       ELSE IF \E i \in 1..4 : ~IsIntLiteral(args[i])
       THEN /\ pc' = "done"
            /\ out' = "not_integers"
            \* the assignments before the int() that raised are made
            /\ LET bad == CHOOSE i \in 1..4 :
                             /\ ~IsIntLiteral(args[i])
                             /\ \A j \in 1..(i - 1) : IsIntLiteral(args[j])
               IN  /\ n' = IF bad > 1 THEN ParseInt(args[1]) ELSE n
                   /\ k' = IF bad > 2 THEN ParseInt(args[2]) ELSE k
                   /\ lmd' = IF bad > 3 THEN ParseInt(args[3]) ELSE lmd
                   /\ mu' = mu
       ELSE /\ pc' = "find_srg"
            /\ n' = ParseInt(args[1])
            /\ k' = ParseInt(args[2])
            /\ lmd' = ParseInt(args[3])
            /\ mu' = ParseInt(args[4])
            /\ out' = out
    /\ UNCHANGED <<args, optimized, status, x, y, E, correct>>

\* lines 15-70 of find_srg: the model is built and m.optimize() returns
Optimize ==
    /\ pc = "find_srg"
    /\ pc' = "optimized"
    /\ optimized' = optimized + 1
    /\ \/ \E s \in Solutions(n, k, lmd, mu) :
            /\ status' = OPTIMAL
            /\ x' = s[1]
            /\ y' = s[2]
       \/ /\ Solutions(n, k, lmd, mu) = {}
          /\ status' \in ProvenInfeasible
          /\ UNCHANGED <<x, y>>
       \/ /\ status' \in Unfinished
          /\ UNCHANGED <<x, y>>
    /\ UNCHANGED <<args, n, k, lmd, mu, E, correct, out>>

\* lines 72-101 of find_srg: the status test, the re-check and the report
Report ==
    /\ pc = "optimized"
    /\ pc' = "done"
    /\ IF status # OPTIMAL
       THEN /\ out' = "no_solution"
            /\ UNCHANGED <<E, correct>>
       ELSE /\ E' = EdgeList(n, x)
            /\ correct' = Verify(n, k, lmd, mu, x, EdgeList(n, x))
            /\ out' = "found"
    /\ UNCHANGED <<args, n, k, lmd, mu, optimized, status, x, y>>

Next == Main \/ Optimize \/ Report

Spec == Init /\ [][Next]_vars

-----------------------------------------------------------------------------
(* The linking constraints of lines 38-45 alone, applied to every x *)

LinkInit ==
    /\ pc = "link"
    /\ args = <<>>
    /\ n \in 0..MaxN
    /\ x \in [Pairs(n) -> {0, 1}]
    /\ k = 0
    /\ lmd = 0
    /\ mu = 0
    /\ optimized = 0
    /\ status = 1
    /\ y = <<>>
    /\ E = <<>>
    /\ correct = TRUE
    /\ out = "none"

\* y takes any assignment that lines 38-45 allow under x
Link ==
    /\ pc = "link"
    /\ pc' = "linked"
    /\ y' \in YAssignments(n, x)
    /\ UNCHANGED <<args, n, k, lmd, mu, optimized, status, x, E, correct, out>>

SpecLink == LinkInit /\ [][Link]_vars

-----------------------------------------------------------------------------
(* Strongly regular graphs, by the definition, for the properties below *)

\* the neighbours of v in the graph on range(nn) whose edge set is S
Nbrs(nn, S, v) == {u \in RangeSet(nn) : u # v /\ Sorted(u, v) \in S}

\* the common neighbours of u and v
Common(nn, S, u, v) == Nbrs(nn, S, u) \cap Nbrs(nn, S, v)

\* S is strongly regular with parameters (nn, kk, ll, mm)
IsSRG(nn, kk, ll, mm, S) ==
    /\ \A v \in RangeSet(nn) : Cardinality(Nbrs(nn, S, v)) = kk
    /\ \A e \in Pairs(nn) :
          Cardinality(Common(nn, S, e[1], e[2])) = IF e \in S THEN ll ELSE mm

\* the edges of a reported list
EdgeSet(EE) == {EE[i] : i \in 1..Len(EE)}

\* the preconditions of the interface
ValidParams == n >= 1 /\ 0 <= k /\ k < n /\ lmd >= 0 /\ mu >= 0

\* the necessary identity k(k - 1 - lambda) = (n - k - 1) mu
Identity == k * (k - 1 - lmd) = (n - k - 1) * mu

\* find_srg has been called (main got past the command line)
Called == pc \in {"find_srg", "optimized"} \/ out \in {"found", "no_solution"}

\* find_srg has printed that it found a solution
Reported == pc = "done" /\ out = "found"

\* the solver ran to its end
Completed == status = OPTIMAL \/ status \in ProvenInfeasible

\* y as the common-neighbour indicator of xx
Indicator(nn, xx) ==
    [t \in Triples(nn) |->
        IF xx[Sorted(t[1], t[2])] = 1 /\ xx[Sorted(t[1], t[3])] = 1 THEN 1 ELSE 0]

-----------------------------------------------------------------------------
(* Properties *)

\* C1: whenever find_srg reports a solution for valid parameters, the
\* reported edge list is strongly regular with these parameters (degree k
\* everywhere, lambda common neighbours for adjacent pairs, mu for the
\* others) and the flag correct of the re-check is True.
C1_Soundness ==
    (Reported /\ ValidParams) =>
        /\ IsSRG(n, k, lmd, mu, EdgeSet(E))
        /\ correct = TRUE

C1_Witness ==
    /\ Reported /\ ValidParams
    /\ n = 4 /\ k = 2 /\ lmd = 0 /\ mu = 2
    /\ Len(E) = 4

\* C2 (as claimed): find_srg ends with a proof of infeasibility only when
\* no edge set on n vertices is strongly regular with the parameters.
C2_NoFalseInfeasibility ==
    (pc = "done" /\ ValidParams /\ status \in ProvenInfeasible /\ n <= EnumN) =>
        ~ \E S \in SUBSET Pairs(n) : IsSRG(n, k, lmd, mu, S)

\* C3: for valid parameters that fail the identity the solver never ends
\* OPTIMAL, and the run prints that there is no solution.
C3_IdentityNecessary ==
    (Called /\ pc # "find_srg" /\ ValidParams /\ ~Identity) =>
        /\ status # OPTIMAL
        /\ pc = "done" => out = "no_solution"

C3_Witness ==
    /\ pc = "done" /\ n = 5 /\ k = 3 /\ lmd = 2 /\ mu = 3
    /\ ~Identity
    /\ status \in ProvenInfeasible
    /\ out = "no_solution"

\* C4 (as claimed): for n=6, k=3, lambda=0, mu=2 a completed run reports
\* a solution that is strongly regular and passes the re-check, and the
\* re-check run again on the reported edge list alone gives the same
\* result.
C4_K33_Mu2 ==
    (pc = "done" /\ n = 6 /\ k = 3 /\ lmd = 0 /\ mu = 2 /\ Completed) =>
        /\ out = "found"
        /\ correct = TRUE
        /\ IsSRG(n, k, lmd, mu, EdgeSet(E))
        /\ Verify(n, k, lmd, mu, XOf(n, EdgeSet(E)), E) = correct

\* C4 (amended): K3,3 is strongly regular with mu = 3.  For n=6, k=3,
\* lambda=0, mu=3 a completed run reports a solution that is strongly
\* regular and passes the re-check, and the re-check run again on the
\* reported edge list alone gives the same result; for n=6, k=3, lambda=0,
\* mu=2 a completed run prints that there is no solution.
C4_K33 ==
    (pc = "done" /\ n = 6 /\ k = 3 /\ lmd = 0 /\ Completed) =>
        /\ mu = 3 =>
              /\ out = "found"
              /\ correct = TRUE
              /\ IsSRG(n, k, lmd, mu, EdgeSet(E))
              /\ Verify(n, k, lmd, mu, XOf(n, EdgeSet(E)), E) = correct
        /\ mu = 2 => out = "no_solution"

C4_Witness ==
    /\ Reported /\ n = 6 /\ k = 3 /\ lmd = 0 /\ mu = 3
    /\ EdgeSet(E) = {0, 1, 2} \X {3, 4, 5}
    /\ correct = TRUE

\* C5: with main's default parameters (10, 3, 0, 1) the Petersen graph,
\* with y the common-neighbour indicator, satisfies every constraint, and
\* a completed run reports a solution that is strongly regular with
\* these parameters and passes the re-check.
C5_Petersen ==
    (Called /\ args = <<>>) =>
        /\ n = 10 /\ k = 3 /\ lmd = 0 /\ mu = 1
        /\ pc = "find_srg" =>
              Feasible(n, k, lmd, mu, XOf(n, PetersenEdges),
                       Indicator(n, XOf(n, PetersenEdges)))
        /\ (pc = "done" /\ Completed) =>
              /\ out = "found"
              /\ correct = TRUE
              /\ IsSRG(10, 3, 0, 1, EdgeSet(E))

C5_Witness ==
    /\ Reported /\ args = <<>> /\ n = 10
    /\ EdgeSet(E) = PetersenEdges
    /\ correct = TRUE

\* C6 (as claimed): parameters outside n >= 1, 0 <= k < n, lambda >= 0,
\* mu >= 0 are rejected before the model is built or searched, and the run
\* ends neither with a solution nor with "no solution".
C6_FailFast ==
    ~ValidParams => (optimized = 0 /\ out \notin {"found", "no_solution"})

\* C7 (as claimed): a search that stopped early, with neither a solution
\* nor a proof that there is none, is not reported as "no solution".
C7_UnknownDistinct ==
    (pc = "done" /\ status \in Unfinished) => out # "no_solution"

\* C9: under the linking constraints of lines 38-45, y[w,u,v] is 1 exactly
\* when x has both edges {w,u} and {w,v}, and 0 otherwise, so the sum of
\* y[w,u,v] over w counts the common neighbours of u and v.
C9_Linking ==
    pc = "linked" =>
        /\ \A t \in Triples(n) :
              /\ y[t] \in {0, 1}
              /\ y[t] = 1 <=> (x[Sorted(t[1], t[2])] = 1 /\ x[Sorted(t[1], t[3])] = 1)
        /\ \A e \in Pairs(n) :
              YSum(n, y, e[1], e[2]) =
                  Cardinality(Common(n, {p \in Pairs(n) : x[p] = 1}, e[1], e[2]))

C9_Witness ==
    /\ pc = "linked" /\ n = 4
    /\ \E t \in Triples(n) : y[t] = 1
    /\ \E t \in Triples(n) : y[t] = 0 /\ x[Sorted(t[1], t[2])] = 1
    /\ YSum(n, y, 0, 1) = 2

\* C10 (as claimed): when the identity fails for valid parameters the run
\* ends without the solver ever being invoked.
C10_IdentityBeforeSearch ==
    (Called /\ ValidParams /\ ~Identity) => optimized = 0

====
